---- MODULE Spec2Model ----
(***************************************************************************)
(* Model of the live dictation recorder of src/record-live-v2.py           *)
(* (class LiveRecorder): the main thread (run / monitor_input /            *)
(* mark_segment / stop_recording / save_results), the transcription        *)
(* worker thread and the per-segment live preview threads.                 *)
(*                                                                         *)
(* Time is counted in half seconds, so that the 0.5 s minimum segment      *)
(* length and the 1.0 s overlap are integers.  Texts are sequences of      *)
(* one-character strings.                                                  *)
(***************************************************************************)
EXTENDS Integers, Sequences, FiniteSets, TLC

VARIABLES
    now,                 \* time.time() - self.start_time, in half seconds
    recording,           \* self.recording
    sox,                 \* the external recorder process: "none", "running", "terminated"
    segments,            \* self.segments
    last_segment_end,    \* self.last_segment_end
    transcription_queue, \* self.transcription_queue (FIFO)
    results,             \* self.results: index -> [text, start, end, type]
    current_draft,       \* self.current_draft: index -> text
    files,               \* indices i for which temp_dir/segment_i.wav exists
    mpc,                 \* position of the main thread in run()
    inHandler,           \* TRUE once run() is in one of its except clauses
    ch,                  \* the key read by get_single_char ("NONE" once handled)
    wpc,                 \* position of the worker thread
    wseg,                \* the segment the worker holds (<<>> when none)
    npc,                 \* index -> position of that segment's preview thread
    engine,              \* index -> the texts whisper may find in that segment's clip
    output,              \* what run() produced: "none", "saved", "nothing"
    transcript,          \* transcript_parts of save_results
    stopSteps,           \* history: the steps of stopping, in the order they happened
    failed,              \* history: indices whose extraction or transcription failed
    written              \* history: indices in the order the worker wrote self.results

vars == <<now, recording, sox, segments, last_segment_end, transcription_queue,
          results, current_draft, files, mpc, inHandler, ch, wpc, wseg, npc,
          engine, output, transcript, stopSteps, failed, written>>

----------------------------------------------------------------------------
(* Bounds and program constants *)

\* the clock stops advancing at MaxTime half seconds
MaxTime == 5

\* self.overlap_seconds = 1.0, in half seconds
overlap_seconds == 2

\* the 0.5 of "current_time > self.last_segment_end + 0.5", in half seconds
MinSegmentLength == 1

\* the 20 of "len(prev_text) > 20"
MinPrevLen == 20

\* the 5 of "full_text.split()[:5]"
ProbeWords == 5

----------------------------------------------------------------------------
(* Text: Python str operations on sequences of characters *)

\* str.isspace for one character
IsSpace(c) == c \in {" ", "\t", "\n"}

RECURSIVE LStrip(_)
LStrip(s) == IF s # <<>> /\ IsSpace(Head(s)) THEN LStrip(Tail(s)) ELSE s

RECURSIVE RStrip(_)
RStrip(s) ==
    IF s # <<>> /\ IsSpace(s[Len(s)]) THEN RStrip(SubSeq(s, 1, Len(s) - 1)) ELSE s

\* str.strip()
Strip(s) == RStrip(LStrip(s))

\* the first word of a text that starts with a non-space character
RECURSIVE FirstWord(_)
FirstWord(s) ==
    IF s = <<>> \/ IsSpace(Head(s)) THEN <<>> ELSE <<Head(s)>> \o FirstWord(Tail(s))

\* str.split(): the maximal runs of non-space characters
RECURSIVE Split(_)
Split(s) ==
    LET t == LStrip(s) IN
    IF t = <<>> THEN <<>>
    ELSE LET w == FirstWord(t) IN <<w>> \o Split(SubSeq(t, Len(w) + 1, Len(t)))

\* ' '.join(words)
RECURSIVE Join(_)
Join(ws) ==
    IF ws = <<>> THEN <<>>
    ELSE IF Len(ws) = 1 THEN ws[1]
    ELSE ws[1] \o <<" ">> \o Join(Tail(ws))

\* words[:n]
Take(ws, n) == SubSeq(ws, 1, IF Len(ws) < n THEN Len(ws) ELSE n)

\* sub occurs in s at the 0-based position i
OccursAt(s, sub, i) ==
    /\ i + Len(sub) <= Len(s)
    /\ SubSeq(s, i + 1, i + Len(sub)) = sub

\* mutant: the highest position is returned
FindLast(s, sub) ==
    LET hits == {i \in 0..Len(s) : OccursAt(s, sub, i)} IN
    IF hits = {} THEN -1 ELSE CHOOSE i \in hits : \A j \in hits : i >= j

\* str.find(sub): the lowest 0-based position of sub in s, -1 when there is none
Find(s, sub) ==
    LET hits == {i \in 0..Len(s) : OccursAt(s, sub, i)} IN
    IF hits = {} THEN -1 ELSE CHOOSE i \in hits : \A j \in hits : i <= j

\* mutant: every phrase counts as found
ContainsAlways(s, sub) == TRUE

\* sub in s
Contains(s, sub) == Find(s, sub) # -1

\* mutant: what is left after the cut is not stripped
DedupUntrimmed(full_text, index, res) ==
    IF index > 0 /\ (index - 1) \in DOMAIN res
    THEN LET check_phrase == Join(Take(Split(full_text), ProbeWords))
             idx == Find(full_text, check_phrase)
         IN IF /\ Len(res[index - 1].text) > MinPrevLen
               /\ check_phrase # <<>>
               /\ Contains(res[index - 1].text, check_phrase)
               /\ idx > 0
            THEN SubSeq(full_text, idx + Len(check_phrase) + 1, Len(full_text))
            ELSE full_text
    ELSE full_text

\* the overlap deduplication of transcribe_segment
Dedup(full_text, index, res) ==
    IF index > 0 /\ (index - 1) \in DOMAIN res
    THEN LET prev_text == res[index - 1].text
             words_to_check == Take(Split(full_text), ProbeWords)
             check_phrase == Join(words_to_check)
             idx == Find(full_text, check_phrase)
         IN IF /\ Len(prev_text) > MinPrevLen
               /\ words_to_check # <<>>
               /\ Contains(prev_text, check_phrase)
               /\ idx > 0
            THEN Strip(SubSeq(full_text, idx + Len(check_phrase) + 1, Len(full_text)))
            ELSE full_text
    ELSE full_text

\* what the speech-to-text engine may put into the "text" field: nothing, or a
\* text with a leading blank and a doubled blank whose first five words come
\* again further on, so that a segment following one that stored this text has
\* its opening cut away by the overlap removal
SpokenText == <<" ", "a", " ", " ", "b", " ", "c", " ", "d", " ", "e", " ",
                "a", " ", "b", " ", "c", " ", "d", " ", "e", " ", "f">>
EngineTexts == {<<>>, SpokenText}

\* texts the engine may return in the runs that exercise the overlap removal.
\* For the segment before: the probe phrase alone (9 characters), a text of
\* exactly 20 characters that holds it, a longer text without it, and a
\* longer text that holds it only in another case
ProbePhrase == <<"a", " ", "b", " ", "c", " ", "d", " ", "e">>
Prev20 == ProbePhrase \o <<" ", "p", " ", "q", " ", "r", " ", "s", " ", "t", "u">>
LongPrevWithout == <<"p", " ", "q", " ", "r", " ", "s", " ", "t", " ", "u", " ",
                     "v", " ", "w", " ", "x", " ", "y", " ", "z">>
LongPrevOtherCase == <<"A", " ", "b", " ", "c", " ", "d", " ", "e", " ",
                       "a", " ", "b", " ", "c", " ", "d", " ", "E", " ", "f", " ", "g">>
PrevTexts == {SpokenText, ProbePhrase, Prev20, LongPrevWithout, LongPrevOtherCase}

\* For the segment itself: no text, the probe phrase at position 0, fewer than
\* five words, a text in which the joined phrase does not occur at all, and a
\* text that has nothing after the repeated phrase, and a single-spaced text
\* that says its first five words twice
RawProbeAtZero == ProbePhrase \o <<" ", "f">>
RawShort == <<"x", " ", "y">>
RawProbeNowhere == <<"a", " ", " ", "b", " ", "c", " ", "d", " ", "e">>
RawAllOverlap == RawProbeNowhere \o <<" ">> \o ProbePhrase
RawProbeTwice == ProbePhrase \o <<" ">> \o ProbePhrase \o <<" ", "f">>
RawTexts ==
    {<<>>, SpokenText, RawProbeAtZero, RawShort, RawProbeNowhere, RawAllOverlap,
     RawProbeTwice}

\* what the preview engine may write to the txt file
DraftTexts == {<<"d">>}

----------------------------------------------------------------------------
(* The Segmenter: mark_segment *)

Max(a, b) == IF a > b THEN a ELSE b

\* mutant: the threshold itself is accepted
MarkAcceptedAtThreshold(current_time, lse) == current_time >= lse + MinSegmentLength

\* "if current_time > self.last_segment_end + 0.5"
MarkAccepted(current_time, lse) == current_time > lse + MinSegmentLength

\* mutant: the window start is not clamped at 0
SegmentStartUnclamped(lse) == lse - overlap_seconds

\* "segment_start = max(0, self.last_segment_end - self.overlap_seconds)"
SegmentStart(lse) == Max(0, lse - overlap_seconds)

\* mutant: the index is taken one too high
NextIndexOffByOne(segs) == Len(segs) + 1

\* the index given to a new segment: len(self.segments)
NextIndex(segs) == Len(segs)

\* mutant: the content is taken to begin where the extraction window begins
NewSegmentContentAtWindowStart(segment_type, current_time, lse, segs) ==
    [start        |-> Max(0, lse - overlap_seconds),
     end          |-> current_time,
     type         |-> segment_type,
     index        |-> Len(segs),
     actual_start |-> Max(0, lse - overlap_seconds)]

\* the segment dict built by mark_segment
NewSegment(segment_type, current_time, lse, segs) ==
    [start        |-> SegmentStart(lse),
     end          |-> current_time,
     type         |-> segment_type,
     index        |-> NextIndex(segs),
     actual_start |-> lse]

\* what a rejected (or inactive) mark does: nothing
MarkNoOp ==
    UNCHANGED <<segments, last_segment_end, transcription_queue, npc>>

\* mutant: the flag is not looked at
mark_segment_unguarded(segment_type) ==
    IF now > last_segment_end + MinSegmentLength
    THEN LET segment == NewSegment(segment_type, now, last_segment_end, segments) IN
         /\ segments' = Append(segments, segment)
         /\ last_segment_end' = now
         /\ transcription_queue' = Append(transcription_queue, segment)
         /\ npc' = [i \in DOMAIN npc \cup {segment.index} |->
                       IF i = segment.index THEN "running" ELSE npc[i]]
    ELSE UNCHANGED <<segments, last_segment_end, transcription_queue, npc>>

\* mark_segment(segment_type), called by the main thread at clock reading "now"
mark_segment(segment_type) ==
    IF ~recording
    THEN MarkNoOp
    ELSE IF MarkAccepted(now, last_segment_end)
         THEN LET segment == NewSegment(segment_type, now, last_segment_end, segments) IN
              /\ segments' = Append(segments, segment)
              /\ last_segment_end' = now
              /\ transcription_queue' = Append(transcription_queue, segment)
              /\ npc' = [i \in DOMAIN npc \cup {segment.index} |->
                            IF i = segment.index THEN "running" ELSE npc[i]]
         ELSE MarkNoOp

----------------------------------------------------------------------------
(* The Assembler: the transcript of save_results *)

\* format_time: <<minutes, seconds>> of a time in half seconds
format_time(t) == <<(t \div 2) \div 60, (t \div 2) % 60>>

\* mutant: the keys are taken from the highest down
RECURSIVE SortedKeysDescending(_)
SortedKeysDescending(S) ==
    IF S = {} THEN <<>>
    ELSE LET m == CHOOSE x \in S : \A y \in S : x >= y IN <<m>> \o SortedKeysDescending(S \ {m})

\* sorted(self.results.keys())
RECURSIVE SortedKeys(_)
SortedKeys(S) ==
    IF S = {} THEN <<>>
    ELSE LET m == CHOOSE x \in S : \A y \in S : x <= y IN <<m>> \o SortedKeys(S \ {m})

\* mutant: an empty line is put after every result
PartsOfBlankAlways(result) ==
    <<<<"line", format_time(result.start), result.text>>, <<"blank">>>>

\* the transcript_parts of one result: its line, and "" after a paragraph
PartsOf(result) ==
    <<<<"line", format_time(result.start), result.text>>>>
        \o (IF result.type = "paragraph" THEN <<<<"blank">>>> ELSE <<>>)

RECURSIVE PartsFrom(_, _)
PartsFrom(keys, res) ==
    IF keys = <<>> THEN <<>>
    ELSE PartsOf(res[Head(keys)]) \o PartsFrom(Tail(keys), res)

\* transcript_parts
TranscriptParts(res) == PartsFrom(SortedKeys(DOMAIN res), res)

----------------------------------------------------------------------------
(* Initial state: a LiveRecorder after __init__, run() not yet entered *)

NoSegment == <<>>

Keys == {"RETURN", "PERIOD", "CTRL_C", "OTHER"}

Init ==
    /\ now = 0
    /\ recording = FALSE
    /\ sox = "none"
    /\ segments = <<>>
    /\ last_segment_end = 0
    /\ transcription_queue = <<>>
    /\ results = <<>>
    /\ current_draft = <<>>
    /\ files = {}
    /\ mpc = "start"
    /\ inHandler = FALSE
    /\ ch = "NONE"
    /\ wpc = "idle"
    /\ wseg = NoSegment
    /\ npc = <<>>
    /\ engine = [i \in 0..MaxTime |-> EngineTexts]
    /\ output = "none"
    /\ transcript = <<>>
    /\ stopSteps = <<>>
    /\ failed = {}
    /\ written = <<>>

----------------------------------------------------------------------------
(* The main thread: run, monitor_input, stop_recording *)

segmenterVars == <<segments, last_segment_end, transcription_queue, npc>>
workerVars == <<wpc, wseg, results, failed, written>>
outputVars == <<output, transcript>>
envVars == <<engine>>

\* run(): a dependency is missing, "return"
DependencyMissing ==
    /\ mpc = "start"
    /\ mpc' = "done"
    /\ UNCHANGED <<envVars, now, recording, sox, segmenterVars, workerVars, current_draft,
                   files, inHandler, ch, outputVars, stopSteps>>

\* start_recording()
start_recording ==
    /\ mpc = "start"
    /\ recording' = TRUE
    /\ now' = 0
    /\ sox' = "running"
    /\ mpc' = "spawn"
    /\ UNCHANGED <<envVars, segmenterVars, workerVars, current_draft, files, inHandler, ch,
                   outputVars, stopSteps>>

\* run(): worker = threading.Thread(target=self.transcription_worker); worker.start()
StartWorker ==
    /\ mpc = "spawn"
    /\ wpc = "idle"
    /\ wpc' = "loop"
    /\ mpc' = "monitor"
    /\ UNCHANGED <<envVars, now, recording, sox, segmenterVars, wseg, results, failed, written,
                   current_draft, files, inHandler, ch, outputVars, stopSteps>>

\* the main thread is about to call mark_segment, which reads the clock
AboutToMark ==
    \/ mpc = "dispatch" /\ ch \in {"RETURN", "PERIOD"}
    \/ mpc = "stop_mark"

\* the session clock advances. Only mark_segment reads it ("current_time =
\* time.time() - self.start_time", after "if not self.recording: return"), so
\* the time that passed since the last reading is added just before the next
Tick ==
    /\ recording
    /\ AboutToMark
    /\ now < MaxTime
    /\ now' = now + 1
    /\ UNCHANGED <<envVars, recording, sox, segmenterVars, workerVars, current_draft, files,
                   mpc, inHandler, ch, outputVars, stopSteps>>

\* monitor_input(): "while self.recording: ch = self.get_single_char()"
\* (a poll that reads no key leaves the loop where it is)
monitor_input ==
    /\ mpc = "monitor"
    /\ IF recording
       THEN \E c \in Keys : ch' = c /\ mpc' = "dispatch"
       ELSE ch' = ch /\ mpc' = "join"
    /\ UNCHANGED <<envVars, now, recording, sox, segmenterVars, workerVars, current_draft,
                   files, inHandler, outputVars, stopSteps>>

\* monitor_input(): the key is RETURN or '.': mark_segment
KeyMark ==
    /\ mpc = "dispatch"
    /\ ch \in {"RETURN", "PERIOD"}
    /\ mark_segment(IF ch = "RETURN" THEN "paragraph" ELSE "sentence")
    /\ mpc' = "monitor"
    /\ ch' = "NONE"
    /\ UNCHANGED <<envVars, now, recording, sox, workerVars, current_draft, files, inHandler, outputVars, stopSteps>>

\* where stop_recording returns to: the "break" of monitor_input, which falls
\* through to worker.join(); or the end of run() from an except clause
StopReturn(handler) == IF handler THEN "done" ELSE "join"

\* mutant: the flag is turned off before the final mark is made
StopNextFlagFirst(pc) ==
    CASE pc = "entry"     -> "stop_flag"
      [] pc = "stop_flag" -> "stop_mark"
      [] pc = "stop_mark" -> "stop_sox"
      [] pc = "stop_sox"  -> "stop_wait"
      [] pc = "stop_wait" -> "stop_settle"

\* the statements of stop_recording() in their order: from "entry", the
\* position of the statement that follows the one at pc
StopNext(pc) ==
    CASE pc = "entry"     -> "stop_mark"    \* self.mark_segment('paragraph')
      [] pc = "stop_mark" -> "stop_flag"    \* self.recording = False
      [] pc = "stop_flag" -> "stop_sox"     \* self.sox_process.terminate()
      [] pc = "stop_sox"  -> "stop_wait"    \* while not ...queue.empty()
      [] pc = "stop_wait" -> "stop_settle"  \* time.sleep(3)

\* mutant: stop_recording() without its entry check
StopEntryUnguarded(handler) == StopNext("entry")

\* the call of stop_recording(): "if not self.recording: return", else on to
\* its first statement
StopEntry(handler) == IF recording THEN StopNext("entry") ELSE StopReturn(handler)

\* mutant: the final mark is a sentence mark
FinalMarkTypeSentence == "sentence"

\* the segment type of the mark that stop_recording makes
FinalMarkType == "paragraph"

\* monitor_input(): the key is Ctrl+C: stop_recording(), then break
KeyStop ==
    /\ mpc = "dispatch"
    /\ ch = "CTRL_C"
    /\ mpc' = StopEntry(inHandler)
    /\ ch' = "NONE"
    /\ UNCHANGED <<envVars, now, recording, sox, segmenterVars, workerVars, current_draft,
                   files, inHandler, outputVars, stopSteps>>

\* monitor_input(): any other key is ignored
KeyOther ==
    /\ mpc = "dispatch"
    /\ ch = "OTHER"
    /\ mpc' = "monitor"
    /\ ch' = "NONE"
    /\ UNCHANGED <<envVars, now, recording, sox, segmenterVars, workerVars, current_draft,
                   files, inHandler, outputVars, stopSteps>>

\* stop_recording(): self.mark_segment('paragraph')
StopMark ==
    /\ mpc = "stop_mark"
    /\ mark_segment(FinalMarkType)
    /\ stopSteps' = Append(stopSteps, "mark")
    /\ mpc' = StopNext("stop_mark")
    /\ UNCHANGED <<envVars, now, recording, sox, workerVars, current_draft, files, inHandler,
                   ch, outputVars>>

\* stop_recording(): self.recording = False
StopFlag ==
    /\ mpc = "stop_flag"
    /\ recording' = FALSE
    /\ stopSteps' = Append(stopSteps, "flag_off")
    /\ mpc' = StopNext("stop_flag")
    /\ UNCHANGED <<envVars, now, sox, segmenterVars, workerVars, current_draft, files,
                   inHandler, ch, outputVars>>

\* stop_recording(): self.sox_process.terminate(); self.sox_process.wait()
StopSox ==
    /\ mpc = "stop_sox"
    /\ sox' = "terminated"
    /\ stopSteps' = Append(stopSteps, "terminate")
    /\ mpc' = StopNext("stop_sox")
    /\ UNCHANGED <<envVars, now, recording, segmenterVars, workerVars, current_draft, files,
                   inHandler, ch, outputVars>>

\* stop_recording(): "while not self.transcription_queue.empty(): time.sleep(0.5)"
\* leaves the loop once the queue is seen empty
StopWait ==
    /\ mpc = "stop_wait"
    /\ transcription_queue = <<>>
    /\ stopSteps' = Append(stopSteps, "drained")
    /\ mpc' = StopNext("stop_wait")
    /\ UNCHANGED <<envVars, now, recording, sox, segmenterVars, workerVars, current_draft,
                   files, inHandler, ch, outputVars>>

\* stop_recording(): time.sleep(3), then return
StopSettle ==
    /\ mpc = "stop_settle"
    /\ stopSteps' = Append(stopSteps, "settled")
    /\ mpc' = StopReturn(inHandler)
    /\ UNCHANGED <<envVars, now, recording, sox, segmenterVars, workerVars, current_draft,
                   files, inHandler, ch, outputVars>>

\* mutant: run() does not wait for the worker thread
WorkerEndedOrNot == TRUE

\* the worker thread has ended, which is what worker.join() waits for
WorkerEnded == wpc = "done"

\* run(): worker.join() returns once the worker thread has ended
JoinWorker ==
    /\ mpc = "join"
    /\ WorkerEnded
    /\ mpc' = "save"
    /\ UNCHANGED <<envVars, now, recording, sox, segmenterVars, workerVars, current_draft,
                   files, inHandler, ch, outputVars, stopSteps>>

\* run(): "if self.results: self.save_results() else: print(No segments transcribed)"
\* save_results builds the transcript and removes the temporary files
save_results ==
    /\ mpc = "save"
    /\ IF DOMAIN results # {}
       THEN /\ transcript' = TranscriptParts(results)
            /\ output' = "saved"
            /\ files' = {}
       ELSE /\ output' = "nothing"
            /\ UNCHANGED <<transcript, files>>
    /\ stopSteps' = Append(stopSteps, "assemble")
    /\ mpc' = "done"
    /\ UNCHANGED <<envVars, now, recording, sox, segmenterVars, workerVars, current_draft,
                   inHandler, ch>>

\* the positions of run() inside its try block, after start_recording
TryPcs == {"spawn", "monitor", "dispatch", "stop_mark", "stop_flag",
           "stop_sox", "stop_wait", "stop_settle", "join", "save"}

\* run(): KeyboardInterrupt (SIGINT while the terminal is not in raw mode) or
\* another exception is raised in the try block; both except clauses call
\* self.stop_recording() and run() then ends
RaiseInRun ==
    /\ mpc \in TryPcs
    /\ ~inHandler
    /\ inHandler' = TRUE
    /\ mpc' = StopEntry(TRUE)
    /\ ch' = "NONE"
    /\ UNCHANGED <<envVars, now, recording, sox, segmenterVars, workerVars, current_draft,
                   files, outputVars, stopSteps>>

----------------------------------------------------------------------------
(* The worker thread: transcription_worker, transcribe_segment *)

mainVars == <<now, recording, sox, mpc, inHandler, ch, outputVars, envVars, stopSteps>>

\* mutant: the loop condition is "while self.recording" alone
AfterFlagOffIgnoringQueue(q) == "done"

\* where the worker goes when the flag was off: out of the loop when the queue is empty
AfterFlagOff(q) == IF q = <<>> THEN "done" ELSE "get"

\* "while self.recording or not self.transcription_queue.empty()": the flag is
\* read first and the queue is looked at only when the flag is off. Once the
\* flag is off nothing is put on the queue any more (stop_recording returns at
\* its entry check), so the two reads are taken in one step
WorkerLoop ==
    /\ wpc = "loop"
    /\ wpc' = IF recording THEN "get" ELSE AfterFlagOff(transcription_queue)
    /\ UNCHANGED <<mainVars, segmenterVars, wseg, results, failed, written,
                   current_draft, files>>

\* mutant: the second segment in the queue is taken when there is one
QueueGetSecond(q) ==
    IF Len(q) > 1 THEN <<q[2], <<q[1]>> \o SubSeq(q, 3, Len(q))>> ELSE <<Head(q), Tail(q)>>

\* mutant: the segment taken is left in the queue
QueueGetKeep(q) == <<Head(q), q>>

\* mutant: the queue is served last in first out
QueueGetLifo(q) == <<q[Len(q)], SubSeq(q, 1, Len(q) - 1)>>

\* queue.Queue.get on a non-empty queue: <<the item taken, the queue left>>
QueueGet(q) == <<Head(q), Tail(q)>>

\* "segment = self.transcription_queue.get(timeout=1)": the oldest segment, or
\* queue.Empty after the timeout, "continue"
WorkerGet ==
    /\ wpc = "get"
    /\ IF transcription_queue # <<>>
       THEN /\ wseg' = QueueGet(transcription_queue)[1]
            /\ transcription_queue' = QueueGet(transcription_queue)[2]
            /\ wpc' = "process"
       ELSE /\ wpc' = "loop"
            /\ UNCHANGED <<wseg, transcription_queue>>
    /\ UNCHANGED <<mainVars, segments, last_segment_end, npc, results, failed,
                   written, current_draft, files>>

\* mutant: a failed segment is put back on the queue to be tried again
DropSegmentRetry(segment) ==
    /\ failed' = failed \cup {segment.index}
    /\ wseg' = NoSegment
    /\ wpc' = "loop"
    /\ transcription_queue' = Append(transcription_queue, segment)
    /\ UNCHANGED <<results, written>>

\* what the worker does with a segment whose extraction or transcription
\* failed: transcribe_segment returned None (or raised into "except Exception"),
\* nothing is stored and the loop goes on
DropSegment(segment) ==
    /\ failed' = failed \cup {segment.index}
    /\ wseg' = NoSegment
    /\ wpc' = "loop"
    /\ UNCHANGED <<results, written, transcription_queue>>

\* mutant: the entry's start is the start of the extraction window
ResultEntryWindowStart(segment, text) ==
    [text  |-> text,
     start |-> segment.start,
     end   |-> segment.end,
     type  |-> segment.type]

\* the entry the worker stores for a segment
ResultEntry(segment, text) ==
    [text  |-> text,
     start |-> segment.actual_start,
     end   |-> segment.end,
     type  |-> segment.type]

\* mutant: the entry is stored under the number of the segment's type
ResultKeyByType(segment) == IF segment.type = "paragraph" THEN 0 ELSE 1

\* the key under which the worker stores a segment's entry
ResultKey(segment) == segment.index

\* "self.results[segment['index']] = {...}"
StoreResult(res, segment, text) ==
    [i \in DOMAIN res \cup {ResultKey(segment)} |->
        IF i = ResultKey(segment) THEN ResultEntry(segment, text) ELSE res[i]]

\* the outcomes of the external calls of one transcribe_segment: ffmpeg fails
\* (no file), whisper raises or writes no json file, or the json holds a text
ExternalOutcomes(i) ==
    {<<"no_audio">>, <<"no_json">>} \cup {<<"text", t>> : t \in engine[i]}

\* the worker's "time.sleep(0.5); text = self.transcribe_segment(segment);
\* if text: self.results[...] = {...}".
\* transcribe_segment: "if not audio_file.exists(): audio_file =
\* self.extract_segment_audio(segment)" (the file is there when ffmpeg wrote
\* it); "if not audio_file: return None"; the whisper call; the json's text,
\* stripped and deduplicated.
WorkerTranscribe ==
    /\ wpc = "process"
    /\ \E out \in ExternalOutcomes(wseg.index) :
         IF out[1] = "no_audio"
         THEN /\ wseg.index \notin files
              /\ files' = files
              /\ DropSegment(wseg)
         ELSE /\ files' = files \cup {wseg.index}
              /\ IF out[1] = "no_json"
                 THEN DropSegment(wseg)
                 ELSE LET text == Dedup(Strip(out[2]), wseg.index, results) IN
                      /\ IF text # <<>>
                         THEN /\ results' = StoreResult(results, wseg, text)
                              /\ written' = Append(written, ResultKey(wseg))
                         ELSE UNCHANGED <<results, written>>
                      /\ wseg' = NoSegment
                      /\ wpc' = "loop"
                      /\ UNCHANGED <<failed, transcription_queue>>
    /\ UNCHANGED <<mainVars, segments, last_segment_end, npc, current_draft>>

----------------------------------------------------------------------------
(* The preview threads: show_live_preview, one daemon thread per segment *)

\* daemon threads run only while the process lives: until the main thread and
\* the worker thread have both ended
ProcessAlive == ~(mpc = "done" /\ wpc \in {"idle", "done"})

\* mutant: the draft is stored under the index of the segment before
StoreDraftAtPrevious(drafts, i, text) ==
    [j \in DOMAIN drafts \cup {Max(0, i - 1)} |-> IF j = Max(0, i - 1) THEN text ELSE drafts[j]]

\* "self.current_draft[segment['index']] = draft_text"
StoreDraft(drafts, i, text) ==
    [j \in DOMAIN drafts \cup {i} |-> IF j = i THEN text ELSE drafts[j]]

\* show_live_preview(segment) for the segment of index i.
\* "audio_file = self.extract_segment_audio(segment)": ffmpeg writes the file
\* or not; "if not audio_file: return". Then the whisper call raises, times
\* out or writes no txt file (the thread ends silently), or the txt file holds
\* a draft, which is stored. Nothing reads a preview thread's position or
\* current_draft, so the thread's run is one step.
show_live_preview(i) ==
    /\ ProcessAlive
    /\ i \in DOMAIN npc
    /\ npc[i] = "running"
    /\ \E ok \in BOOLEAN :
         /\ files' = IF ok THEN files \cup {i} ELSE files
         /\ IF i \in files'
            THEN \E out \in {<<"fail">>} \cup {<<"text", t>> : t \in DraftTexts} :
                   current_draft' = IF out[1] = "fail" THEN current_draft
                                    ELSE StoreDraft(current_draft, i, Strip(out[2]))
            ELSE current_draft' = current_draft
    /\ npc' = [npc EXCEPT ![i] = "done"]
    /\ UNCHANGED <<mainVars, segments, last_segment_end, transcription_queue,
                   workerVars>>

----------------------------------------------------------------------------
(* Specifications *)

MainStep ==
    \/ DependencyMissing
    \/ start_recording
    \/ StartWorker
    \/ monitor_input
    \/ KeyMark
    \/ KeyStop
    \/ KeyOther
    \/ StopMark
    \/ StopFlag
    \/ StopSox
    \/ StopWait
    \/ StopSettle
    \/ JoinWorker
    \/ save_results
    \/ RaiseInRun

WorkerStep ==
    \/ WorkerLoop
    \/ WorkerGet
    \/ WorkerTranscribe

PreviewStep ==
    \E i \in 0..MaxTime : show_live_preview(i)

Next ==
    \/ MainStep
    \/ WorkerStep
    \/ PreviewStep
    \/ Tick

Spec == Init /\ [][Next]_vars

\* the scheduler runs the worker thread whenever it can take a step, and the
\* external calls it makes return
FairSpec == Spec /\ WF_vars(WorkerStep)

\* Runs for the overlap removal. A session with a sentence mark at 1.0 s and a
\* paragraph mark at 2.0 s, the worker about to transcribe segment k: segment
\* 0 with nothing stored yet, or segment 1 after segment 0 was stored with the
\* text p the engine gave for it or was dropped. The engine gives t for
\* segment k.
DedupSegments ==
    LET first == NewSegment("sentence", 2, 0, <<>>)
    IN <<first, NewSegment("paragraph", 4, 2, <<first>>)>>

DedupInit ==
    \E k \in {0, 1}, p \in PrevTexts, stored \in BOOLEAN, t \in RawTexts :
        /\ k = 0 => ~stored /\ p = SpokenText
        /\ now = 4
        /\ recording = TRUE
        /\ sox = "running"
        /\ segments = DedupSegments
        /\ last_segment_end = 4
        /\ transcription_queue = (IF k = 0 THEN <<DedupSegments[2]>> ELSE <<>>)
        /\ wpc = "process"
        /\ wseg = DedupSegments[k + 1]
        /\ engine = [i \in 0..MaxTime |->
                        IF i = k THEN {t} ELSE IF i = 0 THEN {p} ELSE EngineTexts]
        /\ results = (IF stored THEN StoreResult(<<>>, DedupSegments[1], Strip(p)) ELSE <<>>)
        /\ written = (IF stored THEN <<0>> ELSE <<>>)
        /\ failed = (IF k = 1 /\ ~stored THEN {0} ELSE {})
        /\ files = (IF stored THEN {0} ELSE {})
        /\ current_draft = <<>>
        /\ npc = [i \in {0, 1} |-> "done"]
        /\ mpc = "monitor"
        /\ inHandler = FALSE
        /\ ch = "NONE"
        /\ output = "none"
        /\ transcript = <<>>
        /\ stopSteps = <<>>

DedupNext == WorkerTranscribe

DedupSpec == DedupInit /\ [][DedupNext]_vars

\* Runs for the Assembler. A session with user marks at some of 3.0 s, 6.0 s
\* and 8.0 s, each a paragraph or a sentence mark, stopped at 10.0 s; any of
\* its segments transcribed to the spoken text and the others dropped; run()
\* is about to save.
AssemblerMarkTimes == <<6, 12, 16>>
AssemblerStopTime == 20

\* the marks made: <<time, type>> of the user marks chosen by f, then the
\* mark of stop_recording
MarksOf(f) ==
    LET user == [k \in 1..Len(AssemblerMarkTimes) |-> <<AssemblerMarkTimes[k], f[k]>>]
    IN SelectSeq(user, LAMBDA m : m[2] # "none") \o <<<<AssemblerStopTime, FinalMarkType>>>>

\* the segments that mark_segment builds for a sequence of accepted marks
RECURSIVE SegmentsOf(_, _, _)
SegmentsOf(marks, segs, lse) ==
    IF marks = <<>> THEN segs
    ELSE LET m == Head(marks)
         IN SegmentsOf(Tail(marks), Append(segs, NewSegment(m[2], m[1], lse, segs)), m[1])

\* the results the worker builds when the segments with an index in S are
\* transcribed to the spoken text, in queue order
RECURSIVE ResultsOf(_, _, _)
ResultsOf(segs, S, res) ==
    IF segs = <<>> THEN res
    ELSE LET segment == Head(segs)
             text == Dedup(Strip(SpokenText), segment.index, res)
         IN ResultsOf(Tail(segs), S,
                      IF segment.index \in S THEN StoreResult(res, segment, text) ELSE res)

AssemblerInit ==
    \E f \in [1..Len(AssemblerMarkTimes) -> {"none", "paragraph", "sentence"}] :
      LET segs == SegmentsOf(MarksOf(f), <<>>, 0)
          indices == 0..(Len(segs) - 1)
      IN \E S \in SUBSET indices :
        /\ now = AssemblerStopTime
        /\ recording = FALSE
        /\ sox = "terminated"
        /\ segments = segs
        /\ last_segment_end = AssemblerStopTime
        /\ transcription_queue = <<>>
        /\ wpc = "done"
        /\ wseg = NoSegment
        /\ engine = [i \in 0..MaxTime |-> EngineTexts]
        /\ results = ResultsOf(segs, S, <<>>)
        /\ written = SortedKeys(S)
        /\ failed = indices \ S
        /\ files = S
        /\ current_draft = <<>>
        /\ npc = [i \in indices |-> "done"]
        /\ mpc = "save"
        /\ inHandler = FALSE
        /\ ch = "NONE"
        /\ output = "none"
        /\ transcript = <<>>
        /\ stopSteps = <<"mark", "flag_off", "terminate", "drained", "settled">>

AssemblerNext == save_results

AssemblerSpec == AssemblerInit /\ [][AssemblerNext]_vars

\* Runs for mark_segment on a recorder whose session is not active. Either
\* the recorder is fresh (start_recording has not run), or stop_recording has
\* turned the flag off after none, one or two segments were accepted (marks
\* at 1.0 s and 2.0 s), any number of them still queued, the others stored or
\* dropped by the worker, which is at the head of its loop; the clock reads
\* any time from the last accepted mark on. A RETURN or '.' is about to be
\* served by a call of mark_segment, while the worker goes on.
MarkInit ==
    \E started \in BOOLEAN, n \in 0..2, d \in 0..2, t \in 0..MaxTime,
       key \in {"RETURN", "PERIOD"} :
      LET segs == SubSeq(DedupSegments, 1, n)
          lse == IF n = 0 THEN 0 ELSE segs[n].end
      IN \E S \in SUBSET (0..(d - 1)) :
        /\ d <= n
        /\ t >= lse
        /\ ~started => n = 0 /\ t = 0
        /\ now = t
        /\ recording = FALSE
        /\ sox = (IF started THEN "running" ELSE "none")
        /\ segments = segs
        /\ last_segment_end = lse
        /\ transcription_queue = SubSeq(segs, d + 1, n)
        /\ wpc = (IF started THEN "loop" ELSE "idle")
        /\ wseg = NoSegment
        /\ engine = [i \in 0..MaxTime |-> EngineTexts]
        /\ results = ResultsOf(segs, S, <<>>)
        /\ written = SortedKeys(S)
        /\ failed = (0..(d - 1)) \ S
        /\ files = S
        /\ current_draft = <<>>
        /\ npc = [i \in 0..(n - 1) |-> "done"]
        /\ mpc = "dispatch"
        /\ inHandler = FALSE
        /\ ch = key
        /\ output = "none"
        /\ transcript = <<>>
        /\ stopSteps = (IF started THEN <<"mark", "flag_off">> ELSE <<>>)

MarkNext == KeyMark \/ WorkerStep

MarkSpec == MarkInit /\ [][MarkNext]_vars

----------------------------------------------------------------------------
(* Properties *)

Last(q) == q[Len(q)]

\* the step is a call of mark_segment: from monitor_input or from stop_recording
MarkCall ==
    \/ mpc = "dispatch" /\ ch \in {"RETURN", "PERIOD"} /\ mpc' = "monitor"
    \/ mpc = "stop_mark" /\ mpc' # "stop_mark"

\* the step created a segment
SegmentCreated == Len(segments') = Len(segments) + 1

\* C1: the k-th accepted mark (k = 0, 1, ...) creates the segment of index k:
\* the segments' indices are 0, 1, 2, ... in the order of their creation, and
\* every step either leaves the list of segments alone (a rejected mark
\* included) or appends one segment whose index is the number of segments
\* accepted before it.
C1_IndexPerAcceptedMark ==
    /\ [](\A k \in 1..Len(segments) : segments[k].index = k - 1)
    /\ [][\/ segments' = segments
          \/ /\ SegmentCreated
             /\ SubSeq(segments', 1, Len(segments)) = segments
             /\ Last(segments').index = Len(segments)]_vars

\* a mark has just been rejected after the first segment, and no index was used
C1_Witness ==
    /\ mpc = "monitor"
    /\ Len(segments) = 1
    /\ segments[1].index = 0
    /\ now = last_segment_end + MinSegmentLength

\* the end of the previously accepted segment, 0 before any
PreviousContentEnd(k) == IF k = 1 THEN 0 ELSE segments[k - 1].end

\* C2: every segment has contentStart = previousContentEnd, windowStart =
\* max(0, previousContentEnd - overlap) and windowEnd = the time of its mark,
\* previousContentEnd being the time of the previously accepted mark (0
\* before any); the first segment's window starts at 0.
C2_WindowGeometry ==
    /\ [](\A k \in 1..Len(segments) :
            LET p == PreviousContentEnd(k) IN
            /\ segments[k].actual_start = p
            /\ segments[k].start = (IF p - overlap_seconds > 0 THEN p - overlap_seconds ELSE 0)
            /\ (k = 1 => segments[k].start = 0))
    /\ [](last_segment_end = PreviousContentEnd(Len(segments) + 1))
    /\ [][SegmentCreated => MarkCall /\ Last(segments').end = now]_vars

\* two segments, the second with a window that starts before its content and after 0
C2_Witness ==
    /\ Len(segments) = 2
    /\ segments[1].start = 0
    /\ segments[2].start > 0
    /\ segments[2].start < segments[2].actual_start

\* C3: a mark at a time t <= previousContentEnd + 0.5 is rejected: no segment
\* is produced, previousContentEnd and the next index are unchanged, nothing
\* is put on the queue and no preview thread is started.
C3_RejectedMarkNoOp ==
    [][MarkCall /\ now <= last_segment_end + MinSegmentLength
         => /\ segments' = segments
            /\ last_segment_end' = last_segment_end
            /\ transcription_queue' = transcription_queue
            /\ npc' = npc]_vars

\* a mark exactly 0.5 s after the start of the session has just been rejected
C3_Witness ==
    /\ mpc = "monitor"
    /\ recording
    /\ segments = <<>>
    /\ now = MinSegmentLength

----------------------------------------------------------------------------
(* The worker, C4 - C6 and C10 *)

\* stop_recording has turned the flag off
FlagTurnedOff == \E k \in 1..Len(stopSteps) : stopSteps[k] = "flag_off"

\* the indices of the segments in a queue
QueuedIndices(q) == {q[k].index : k \in 1..Len(q)}

\* C4: the worker never terminates while the session is active or the queue
\* is non-empty, and once the flag is off a started worker goes on until the
\* queue is empty and then terminates (every external call returning).
C4_WorkerDrainsThenTerminates ==
    /\ [](wpc = "done" => ~recording /\ transcription_queue = <<>>)
    /\ [][wpc' = "done" /\ wpc # "done"
            => ~recording /\ transcription_queue = <<>> /\ wseg = NoSegment]_vars
    /\ ((wpc # "idle" /\ FlagTurnedOff) ~> (wpc = "done" /\ transcription_queue = <<>>))

\* after stop, the worker is about to dequeue with two segments still queued
C4_Witness ==
    /\ FlagTurnedOff
    /\ wpc = "get"
    /\ Len(transcription_queue) = 2

\* C5: a segment whose extraction or transcription failed never gets a
\* results entry and is never queued or taken again; at the failure the worker
\* goes back to the head of its loop with the queue and the results untouched,
\* and it does not end while segments are queued.
C5_FailedSegmentDropped ==
    /\ [](\A i \in failed :
            /\ i \notin DOMAIN results
            /\ i \notin QueuedIndices(transcription_queue)
            /\ (wseg # NoSegment => wseg.index # i))
    /\ [][failed' # failed
            => /\ wpc' = "loop"
               /\ results' = results
               /\ transcription_queue' = transcription_queue]_vars
    /\ [](wpc = "done" => transcription_queue = <<>>)

\* segment 0 failed and the worker went on to store segment 1
C5_Witness ==
    /\ 0 \in failed
    /\ 1 \in DOMAIN results

\* no index occurs twice in a sequence
NoRepeat(q) == \A a, b \in 1..Len(q) : a # b => q[a] # q[b]

\* C6: an entry of self.results is written once, by the worker, and is never
\* changed or removed afterwards.
C6_ResultWrittenOnce ==
    /\ [][\A i \in DOMAIN results : i \in DOMAIN results' /\ results'[i] = results[i]]_vars
    /\ [][results' # results
            => /\ wpc = "process"
               /\ wpc' = "loop"
               /\ DOMAIN results' = DOMAIN results \cup {wseg.index}]_vars
    /\ [](NoRepeat(written) /\ {written[k] : k \in 1..Len(written)} = DOMAIN results)

\* two entries have been written
C6_Witness ==
    /\ DOMAIN results = {0, 1}
    /\ written = <<0, 1>>
    /\ wpc = "loop"

\* a sequence of numbers is strictly ascending
Ascending(q) == \A a, b \in 1..Len(q) : a < b => q[a] < q[b]

\* C10: the queue always holds its segments in ascending index order, it is
\* served first in first out, and the worker writes the results in ascending
\* index order.
C10_ResultsInIndexOrder ==
    /\ [](Ascending([k \in 1..Len(transcription_queue) |-> transcription_queue[k].index]))
    /\ [](Ascending(written))
    /\ [][wseg' # wseg /\ wseg' # NoSegment
            => /\ wseg' = Head(transcription_queue)
               /\ transcription_queue' = Tail(transcription_queue)]_vars

\* the worker has ended after writing two results, the earlier segment's first
C10_Witness ==
    /\ wpc = "done"
    /\ Len(written) = 2
    /\ written[1] < written[2]

----------------------------------------------------------------------------
(* Stopping and assembling, C7 - C9 *)

\* how often a step occurs in the history of stopping
Count(q, e) == Cardinality({k \in 1..Len(q) : q[k] = e})

\* C7: in every run in which the session is stopped the Assembler step
\* (save_results, or "No segments transcribed") has been taken exactly once
\* when run() ends, and it is taken only after the flag is off, the queue is
\* empty and the worker has ended.
C7_AssembledExactlyOnce ==
    /\ (mpc = "done" /\ FlagTurnedOff => Count(stopSteps, "assemble") = 1)
    /\ (Count(stopSteps, "assemble") > 0
          => /\ Count(stopSteps, "assemble") = 1
             /\ FlagTurnedOff
             /\ transcription_queue = <<>>
             /\ wpc = "done")

\* the order of the steps as the code takes them
StepRank(e) ==
    CASE e = "mark"      -> 1
      [] e = "flag_off"  -> 2
      [] e = "terminate" -> 3
      [] e = "drained"   -> 4
      [] e = "settled"   -> 5
      [] e = "assemble"  -> 6

\* the order of the steps with the flag turned off before the final mark
StepRankFlagFirst(e) ==
    CASE e = "flag_off"  -> 1
      [] e = "mark"      -> 2
      [] e = "terminate" -> 3
      [] e = "drained"   -> 4
      [] e = "settled"   -> 5
      [] e = "assemble"  -> 6

StopStepNames == {"mark", "flag_off", "terminate", "drained", "settled"}

\* the Assembler ran only after every step of stopping
AssembleAfterAllSteps ==
    Count(stopSteps, "assemble") > 0 => \A e \in StopStepNames : Count(stopSteps, e) > 0

\* C8 as stated: the flag is turned off, then the final mark is made, then
\* the recorder is terminated, the queue is waited for, the settle delay
\* elapses, and only then the Assembler runs.
C8_OrderFlagFirst ==
    /\ \A a, b \in 1..Len(stopSteps) :
         a < b => StepRankFlagFirst(stopSteps[a]) <= StepRankFlagFirst(stopSteps[b])
    /\ AssembleAfterAllSteps

\* C8, amended: the final mark is made while the flag is still on, then the
\* flag is turned off, then the recorder is terminated, the queue is waited
\* for, the settle delay elapses, and only then the Assembler runs. The flag
\* is on at the mark and off from then on, the recorder is terminated before
\* the wait ends, and the queue is empty when the wait ends.
C8_OrderMarkFirst ==
    /\ [](\A a, b \in 1..Len(stopSteps) :
            a < b => StepRank(stopSteps[a]) <= StepRank(stopSteps[b]))
    /\ [](AssembleAfterAllSteps)
    /\ [][Count(stopSteps', "mark") > Count(stopSteps, "mark") => recording]_vars
    /\ [](Count(stopSteps, "flag_off") > 0 => ~recording)
    /\ [](Count(stopSteps, "drained") > 0
            => sox = "terminated" /\ transcription_queue = <<>>)

\* a complete stop followed by the Assembler
C8_Witness ==
    stopSteps = <<"mark", "flag_off", "terminate", "drained", "settled", "assemble">>

\* C9 as stated: after stop the highest-index segment is a paragraph whose
\* window ends at the stop time.
C9_StopAlwaysFlushes ==
    FlagTurnedOff
        => /\ segments # <<>>
           /\ Last(segments).type = "paragraph"
           /\ Last(segments).end = now

\* C9, amended: the mark that stop_recording makes at the stop time creates a
\* paragraph segment that ends at the stop time when the stop time is more
\* than 0.5 s after the end of the previous segment (or after the start of
\* the session), and no segment otherwise; once the flag is off no segment is
\* created.
C9_StopFlushesWhenLongEnough ==
    /\ [][mpc = "stop_mark" /\ mpc' # "stop_mark"
            => IF now > last_segment_end + MinSegmentLength
               THEN /\ SegmentCreated
                    /\ Last(segments').type = "paragraph"
                    /\ Last(segments').actual_start = last_segment_end
                    /\ Last(segments').end = now
               ELSE segments' = segments]_vars
    /\ [][~recording => segments' = segments /\ now' = now]_vars

\* stopped 0.5 s or more after a sentence mark: the trailing audio is the last paragraph
C9_Witness ==
    /\ FlagTurnedOff
    /\ Len(segments) = 2
    /\ segments[1].type = "sentence"
    /\ segments[2].type = "paragraph"
    /\ segments[2].end = now

----------------------------------------------------------------------------
(* The preview threads, C11 and C12 *)

\* C11: a preview task has no effect on self.results: whether and when its
\* extraction succeeds makes no difference to what the worker stores, every
\* entry being made from a clip the worker extracted itself (no clip of the
\* segment lies in temp_dir when the worker comes to transcribe it).
C11_NotifierNoEffectOnFinal ==
    [][results' # results => wseg.index \notin files]_vars

\* the step is the run of the preview thread of segment i
PreviewOf(i) ==
    /\ i \in DOMAIN npc
    /\ npc[i] = "running"
    /\ npc' = [npc EXCEPT ![i] = "done"]

\* a map changed at most at the key i
ChangedOnlyAt(old, new, i) ==
    /\ DOMAIN new \in {DOMAIN old, DOMAIN old \cup {i}}
    /\ \A j \in DOMAIN old : j # i => new[j] = old[j]

\* what a preview thread never writes: the results, the queue, the
\* Segmenter's state, the flag, the worker and the main thread
PreviewFrame ==
    UNCHANGED <<results, written, failed, transcription_queue, segments,
                last_segment_end, recording, sox, now, wpc, wseg, mpc,
                inHandler, ch, output, transcript, engine, stopSteps>>

\* the Assembler reads self.results alone: what it produces is a function of
\* the results, whatever current_draft holds
AssemblerReadsResultsOnly ==
    /\ transcript' # transcript => transcript' = TranscriptParts(results)
    /\ output' # output => output' = (IF DOMAIN results # {} THEN "saved" ELSE "nothing")
    /\ mpc = "save" /\ mpc' = "done" /\ ~inHandler' => current_draft' = current_draft

----------------------------------------------------------------------------
(* The overlap removal, C13 and C14 *)

\* the step is a transcription by the worker in which the engine gave a text
TranscribedOk == wpc = "process" /\ wpc' = "loop" /\ failed' = failed

\* the text of the segment as transcribe_segment takes it from the engine: the
\* json's text, surrounding whitespace stripped (one text per segment in the
\* runs for the overlap removal)
RawText(i) == Strip(CHOOSE t \in engine[i] : TRUE)

\* the first 5 whitespace-delimited words, joined by single spaces
Probe(raw) == Join(Take(Split(raw), 5))

\* the text with everything up to and including the end of the probe removed,
\* then trimmed
CutThroughProbe(raw) ==
    LET probe == Probe(raw)
    IN Strip(SubSeq(raw, Find(raw, probe) + Len(probe) + 1, Len(raw)))

\* the step leaves text as the stored text of segment i (an empty text is not
\* stored at all)
StoredAs(i, text) ==
    IF text = <<>> THEN i \notin DOMAIN results'
    ELSE i \in DOMAIN results' /\ results'[i].text = text

\* the predecessor of segment i has a result whose text holds the probe of raw
ProbeInPredecessor(i, raw) ==
    /\ i > 0
    /\ (i - 1) \in DOMAIN results
    /\ \E k \in 0..Len(results[i - 1].text) :
          OccursAt(results[i - 1].text, Probe(raw), k)

\* C13 as stated: for a segment i > 0 whose predecessor has a result with any
\* text, if the probe occurs in the predecessor's text and its position in the
\* segment's raw text is greater than 0, the stored text is the raw text cut
\* through the end of the probe and trimmed.
C13_TruncatesWhenProbeFound ==
    [][TranscribedOk
         => LET i == wseg.index
                raw == RawText(i)
            IN ProbeInPredecessor(i, raw) /\ Find(raw, Probe(raw)) > 0
                 => StoredAs(i, CutThroughProbe(raw))]_vars

\* C13, amended: the same, when in addition the predecessor's text is longer
\* than 20 characters.
C13_TruncatesWhenPredecessorLong ==
    [][TranscribedOk
         => LET i == wseg.index
                raw == RawText(i)
            IN (/\ ProbeInPredecessor(i, raw)
                /\ Find(raw, Probe(raw)) > 0
                /\ Len(results[i - 1].text) > 20)
                 => StoredAs(i, CutThroughProbe(raw))]_vars

\* segment 1 repeated the phrase that ends segment 0's text and kept only
\* what follows it
C13_Witness ==
    /\ DOMAIN results = {0, 1}
    /\ results[0].text = Strip(SpokenText)
    /\ RawText(1) = Strip(SpokenText)
    /\ results[1].text = <<"f">>

\* C14: for segment 0, for a segment whose predecessor has no result, and for
\* a segment whose probe does not occur (exactly, case and punctuation
\* included) in the predecessor's text, the stored text is the raw text.
C14_UnmodifiedOtherwise ==
    [][TranscribedOk
         => LET i == wseg.index
                raw == RawText(i)
            IN ~ProbeInPredecessor(i, raw) => StoredAs(i, raw)]_vars

\* segment 1 was stored whole after a predecessor that holds its opening
\* phrase only in another case
C14_Witness ==
    /\ DOMAIN results = {0, 1}
    /\ results[0].text = LongPrevOtherCase
    /\ results[1].text = Strip(SpokenText)

----------------------------------------------------------------------------
(* The Assembler, C15 - C17 *)

\* C15: when the session has ended (run() and the worker are through), with
\* no results entry "nothing to save" was signalled and no transcript was
\* produced, and with at least one entry the transcript of the results was
\* produced.
C15_TranscriptIffResults ==
    mpc = "done" /\ wpc = "done"
        => IF DOMAIN results = {}
           THEN output = "nothing" /\ transcript = <<>>
           ELSE output = "saved" /\ transcript = TranscriptParts(results)

\* the lines of a transcript, without its empty lines
LinesOf(parts) == SelectSeq(parts, LAMBDA part : part[1] = "line")

\* the place of the entry of index i among the entries, counted from 1 in
\* ascending index order
Rank(res, i) == Cardinality({j \in DOMAIN res : j <= i})

\* the line "[mm:ss] <text>" of an entry
LineOf(entry) == <<"line", <<(entry.start \div 2) \div 60, (entry.start \div 2) % 60>>, entry.text>>

\* C16: the transcript that was produced has exactly one line per results
\* entry, and the lines stand in strictly ascending order of the entries'
\* indices: the k-th line is the line of the entry with the k-th lowest index.
C16_LinesInIndexOrder ==
    output = "saved"
        => /\ Len(LinesOf(transcript)) = Cardinality(DOMAIN results)
           /\ \A i \in DOMAIN results :
                LinesOf(transcript)[Rank(results, i)] = LineOf(results[i])

\* three of four segments were transcribed, indices 0, 2 and 3, and the
\* transcript holds their three lines in that order
C16_Witness ==
    /\ output = "saved"
    /\ DOMAIN results = {0, 2, 3}
    /\ LinesOf(transcript) = <<LineOf(results[0]), LineOf(results[2]), LineOf(results[3])>>
    /\ results[0].start < results[2].start

\* the position in the transcript of the k-th line
RECURSIVE LinePosition(_, _, _)
LinePosition(parts, k, from) ==
    IF parts[from][1] = "line"
    THEN IF k = 1 THEN from ELSE LinePosition(parts, k - 1, from + 1)
    ELSE LinePosition(parts, k, from + 1)

\* an empty line stands at position p of the transcript
BlankAt(parts, p) == p >= 1 /\ p <= Len(parts) /\ parts[p] = <<"blank">>

\* C17: in the transcript that was produced an empty line follows the line of
\* an entry if and only if the entry's type is paragraph, and there is no
\* other empty line.
C17_BlankIffParagraph ==
    output = "saved"
        => /\ \A i \in DOMAIN results :
                BlankAt(transcript, LinePosition(transcript, Rank(results, i), 1) + 1)
                    <=> results[i].type = "paragraph"
           /\ \A p \in 1..Len(transcript) :
                BlankAt(transcript, p) => p > 1 /\ transcript[p - 1][1] = "line"

\* marks at 3.0 s (paragraph) and 6.0 s (sentence), stop at 10.0 s, all three
\* segments transcribed: an empty line after the lines of index 0 and of index
\* 2, none after the line of index 1
C17_Witness ==
    /\ output = "saved"
    /\ Len(segments) = 3
    /\ segments[1].end = 6 /\ segments[1].type = "paragraph"
    /\ segments[2].end = 12 /\ segments[2].type = "sentence"
    /\ segments[3].end = 20 /\ segments[3].type = "paragraph"
    /\ DOMAIN results = {0, 1, 2}
    /\ transcript = <<LineOf(results[0]), <<"blank">>,
                      LineOf(results[1]),
                      LineOf(results[2]), <<"blank">>>>

----------------------------------------------------------------------------
(* Stopping twice, the stored entry, assembling after the worker: C18 - C20 *)

\* the step is a call of stop_recording: Ctrl+C read by monitor_input, or an
\* except clause of run()
StopCall ==
    \/ mpc = "dispatch" /\ ch = "CTRL_C" /\ mpc' # "dispatch"
    \/ ~inHandler /\ inHandler'

\* C18: a call of stop_recording after a stop has turned the flag off, and so
\* any call after a first stop has completed, returns at once and changes
\* nothing: no segment, no change to the queue, the flag, the Segmenter's
\* state, the results or the recorder; no step of stopping is taken a second
\* time.
C18_StopIdempotent ==
    /\ [][StopCall /\ ~recording
            => /\ mpc' = StopReturn(inHandler')
               /\ UNCHANGED <<segments, last_segment_end, transcription_queue, npc,
                              recording, sox, now, results, written, failed, wpc,
                              wseg, current_draft, files, output, transcript,
                              stopSteps>>]_vars
    /\ [](\A e \in {"flag_off", "terminate", "drained", "settled"} :
            Count(stopSteps, e) <= 1)

\* a first stop had completed with one segment made, then stop was called
\* again from an except clause of run(), and run() ended
C18_Witness ==
    /\ inHandler
    /\ mpc = "done"
    /\ stopSteps = <<"mark", "flag_off", "terminate", "drained", "settled">>
    /\ Len(segments) = 1
    /\ ~recording

\* the text that the overlap removal leaves of the raw text of segment i
ExpectedText(i, raw) ==
    IF ProbeInPredecessor(i, raw)
    THEN IF Len(results[i - 1].text) > 20 /\ Find(raw, Probe(raw)) > 0
         THEN CutThroughProbe(raw)
         ELSE raw
    ELSE raw

\* the results with the entry of a segment added
WithEntry(segment, text) ==
    [i \in DOMAIN results \cup {segment.index} |->
        IF i = segment.index
        THEN [text |-> text, start |-> segment.actual_start,
              end |-> segment.end, type |-> segment.type]
        ELSE results[i]]

\* C19 as stated: every segment whose extraction and transcription both
\* succeeded gets, for every text the engine returned, an entry at its own
\* index with the deduplicated text, its contentStart, its windowEnd and its
\* type.
C19_EntryForEveryText ==
    [][TranscribedOk
         => \E t \in engine[wseg.index] :
              results' = WithEntry(wseg, ExpectedText(wseg.index, Strip(t)))]_vars

\* C19, amended: such a segment gets that entry when the deduplicated text is
\* not empty, and no entry at all when it is empty.
C19_EntryForNonEmptyText ==
    [][TranscribedOk
         => \E t \in engine[wseg.index] :
              LET text == ExpectedText(wseg.index, Strip(t))
              IN IF text = <<>> THEN results' = results
                 ELSE results' = WithEntry(wseg, text)]_vars

\* segment 1, whose window starts before its content, was transcribed after
\* segment 0 and has its entry with what the overlap removal left of its text
C19_Witness ==
    /\ Len(segments) = 2
    /\ DOMAIN results = {0, 1}
    /\ segments[2].start < segments[2].actual_start
    /\ results[1] = [text |-> <<"f">>, start |-> segments[2].actual_start,
                     end |-> segments[2].end, type |-> segments[2].type]

\* the Assembler has run
Assembled == output # "none"

\* C20: the Assembler runs only when the worker thread has ended, with nothing
\* queued or in flight, so that every accepted segment then has its entry or
\* is dropped for good; no results entry is written once it has run.
C20_AssembledAfterWorker ==
    /\ [][output' # output
            => wpc = "done" /\ transcription_queue = <<>> /\ wseg = NoSegment]_vars
    /\ [](Assembled => wpc = "done" /\ transcription_queue = <<>> /\ wseg = NoSegment)
    /\ [][Assembled \/ output' # output => results' = results]_vars

\* the Assembler has run on a session of two segments, one with an entry and
\* one that failed
C20_Witness ==
    /\ output = "saved"
    /\ Len(segments) = 2
    /\ Cardinality(DOMAIN results) = 1
    /\ Cardinality(failed) = 1
    /\ wpc = "done"

----------------------------------------------------------------------------
(* The worker's order and the places of a segment, C21 and C23 *)

\* the segment of index i is with the worker
InFlight(i) == wseg # NoSegment /\ wseg.index = i

\* the segment of index i has been completely processed: it was accepted and
\* is neither queued nor with the worker
Processed(i) ==
    /\ i \in 0..(Len(segments) - 1)
    /\ i \notin QueuedIndices(transcription_queue)
    /\ ~InFlight(i)

\* C21: while the worker holds segment i (i > 0), segment i-1 has been
\* completely processed; and once a segment has been completely processed it
\* stays so and its results entry is neither written nor removed any more. So
\* the lookup of results[i-1] meets no pending write, and a missing entry
\* means that i-1 was dropped.
C21_PredecessorSettled ==
    /\ [](wseg # NoSegment /\ wseg.index > 0 => Processed(wseg.index - 1))
    /\ [][\A i \in 0..(Len(segments) - 1) :
            Processed(i) => /\ Processed(i)'
                            /\ (i \in DOMAIN results' <=> i \in DOMAIN results)]_vars

\* the worker holds segment 1 after segment 0 failed: the lookup finds no
\* entry for segment 0 and none will come
C21_Witness ==
    /\ wpc = "process"
    /\ wseg.index = 1
    /\ 0 \in failed
    /\ 0 \notin DOMAIN results

\* the indices of the accepted segments
Accepted == 0..(Len(segments) - 1)

\* the indices of the segments with the worker (one at most)
InFlightIndices == IF wseg = NoSegment THEN {} ELSE {wseg.index}

\* C23: the queue, the worker and self.results hold accepted segments only
\* and no segment is in two of them or twice in the queue (a segment in none
\* of them has been dropped); a segment enters the queue only in the step
\* that creates it, which also starts its one preview thread, goes from the
\* queue to the worker and from the worker into self.results or to the
\* dropped ones, and never comes back; there is one preview thread per
\* accepted segment, and a finished one is never started again; the keys of
\* self.results and of self.current_draft are indices of accepted segments.
C23_OnePlacePerSegment ==
    /\ [](LET Q == QueuedIndices(transcription_queue)
              W == InFlightIndices
              F == DOMAIN results
          IN /\ Q \subseteq Accepted /\ W \subseteq Accepted /\ F \subseteq Accepted
             /\ DOMAIN current_draft \subseteq Accepted
             /\ DOMAIN npc = Accepted
             /\ Q \cap W = {} /\ Q \cap F = {} /\ W \cap F = {}
             /\ NoRepeat([k \in 1..Len(transcription_queue) |->
                            transcription_queue[k].index]))
    /\ [][\A i \in 0..(Len(segments') - 1) :
            LET created == SegmentCreated /\ i = Len(segments) IN
            /\ i \in QueuedIndices(transcription_queue')
                 <=> (created \/ (/\ i \in QueuedIndices(transcription_queue)
                                  /\ i \notin InFlightIndices'))
            /\ created => npc'[i] = "running"
            /\ i \in InFlightIndices'
                 => i \in InFlightIndices \/ i \in QueuedIndices(transcription_queue)
            /\ i \in DOMAIN results' => i \in DOMAIN results \/ i \in InFlightIndices
            /\ ~created /\ npc[i] = "done" => npc'[i] = "done"]_vars

\* of two accepted segments the first is with the worker and the second
\* waits in the queue, and the first one's preview has stored its draft
C23_Witness ==
    /\ Len(segments) = 2
    /\ InFlightIndices = {0}
    /\ QueuedIndices(transcription_queue) = {1}
    /\ DOMAIN results = {}
    /\ DOMAIN current_draft = {0}
    /\ npc[1] = "running"

----------------------------------------------------------------------------
(* The content ranges, C24 *)

\* C24: the content ranges [actual_start, end] of the accepted segments tile
\* the timeline: the first begins at 0, each following one begins where the
\* one before ends, every one is longer than 0.5 s and begins no earlier
\* than its extraction window, the beginnings do not decrease with the
\* index, and self.last_segment_end is the end of the last accepted segment.
C24_ContentRangesTile ==
    /\ Len(segments) > 0
         => /\ segments[1].actual_start = 0
            /\ last_segment_end = segments[Len(segments)].end
    /\ \A k \in 1..(Len(segments) - 1) : segments[k + 1].actual_start = segments[k].end
    /\ \A k \in 1..Len(segments) :
         /\ segments[k].end - segments[k].actual_start > MinSegmentLength
         /\ segments[k].start <= segments[k].actual_start
    /\ \A j, k \in 1..Len(segments) :
         j <= k => segments[j].actual_start <= segments[k].actual_start

\* two segments of the shortest accepted length, the second one's window
\* reaching back into the first one's content
C24_Witness ==
    /\ Len(segments) = 2
    /\ segments[1].end = MinSegmentLength + 1
    /\ segments[2].actual_start = segments[1].end
    /\ segments[2].end = segments[2].actual_start + MinSegmentLength + 1
    /\ segments[2].start < segments[2].actual_start
    /\ last_segment_end = segments[2].end

----------------------------------------------------------------------------
(* The overlap removal on single-spaced texts, C22 *)

\* the first n words of the trimmed text s (all of them when there are fewer)
\* are separated by one space character each
RECURSIVE LeadingSingleSpaced(_, _)
LeadingSingleSpaced(s, n) ==
    IF n <= 1 THEN TRUE
    ELSE LET w == FirstWord(s)
             rest == SubSeq(s, Len(w) + 1, Len(s))
         IN IF rest = <<>> THEN TRUE
            ELSE /\ rest[1] = " "
                 /\ Len(rest) > 1
                 /\ ~IsSpace(rest[2])
                 /\ LeadingSingleSpaced(Tail(rest), n - 1)

----------------------------------------------------------------------------
(* Marks while the session is not active, C25 *)

\* the worker's loop condition is false
ExitCondition == ~recording /\ transcription_queue = <<>>

\* C25: a call of mark_segment while self.recording is off creates no
\* segment and leaves last_segment_end, the queue and the preview threads as
\* they are, on a fresh recorder as after stop; so with the flag off nothing
\* is put on the queue any more (the queue only loses its head to the
\* worker), and the worker's exit condition, once true, stays true.
C25_InactiveMarkNoOp ==
    /\ [][MarkCall /\ ~recording
            => /\ segments' = segments
               /\ last_segment_end' = last_segment_end
               /\ transcription_queue' = transcription_queue
               /\ npc' = npc]_vars
    /\ [][~recording
            => /\ segments' = segments
               /\ \/ transcription_queue' = transcription_queue
                  \/ /\ transcription_queue # <<>>
                     /\ transcription_queue' = Tail(transcription_queue)]_vars
    /\ [][ExitCondition => ExitCondition']_vars

\* after stop, at a time when an active session would have accepted a mark,
\* the mark has been served: still one segment, and the worker has ended
C25_Witness ==
    /\ ~recording
    /\ FlagTurnedOff
    /\ mpc = "monitor"
    /\ now > last_segment_end + MinSegmentLength
    /\ Len(segments) = 1
    /\ wpc = "done"
    /\ ExitCondition

====
